---------------------------- MODULE Spec2Model ----------------------------
(***************************************************************************)
(* HiveBox: the readiness / caching decision engine.                       *)
(*                                                                         *)
(* The model covers app/services.py (aggregation, classification, the read *)
(* path, the availability sampler), app/health.py (readiness_check),       *)
(* app/storage.py (the durable store and the snapshot loop), the handlers  *)
(* and the lifespan of app/api.py built on them, and the snapshot loop of  *)
(* the single-file application main.py.  The Redis entry 'temperature' and *)
(* the MinIO bucket are the shared state; Redis, MinIO, the OpenSenseMap   *)
(* API and the clock are the environment, whose answers are the inputs of  *)
(* the actions.                                                            *)
(*                                                                         *)
(* Representation.  Bytes and strings that the code parses are sequences   *)
(* of one-character strings (b'20' is <<"2","0">>).  A Python Optional is  *)
(* a sequence of length 0 (None) or 1.  A sensor value is a decimal        *)
(* literal with at most one fractional digit, 0 or 5: such numbers and     *)
(* their sums are exact in binary floating point, so float arithmetic on   *)
(* them is modelled by integer arithmetic on halves.                       *)
(***************************************************************************)
EXTENDS Integers, Sequences, FiniteSets, TLC

VARIABLES
    cache,   \* the Redis key 'temperature': <<>> or <<[val |-> bytes, ttl |-> seconds left]>>
    call,    \* the last operation: its inputs, what it invoked, its outcome
    minio,   \* the durable store: [bucket, objects, puts]
    task,    \* the application and its snapshot task: [app, pc, sleep, created]
    clock    \* the last reading of datetime.now() taken for a snapshot

vars == <<cache, call, minio, task, clock>>

-----------------------------------------------------------------------------
(* Bounds of the model *)

MaxBoxes == 2      \* boxes in one upstream response
MaxSensors == 1    \* sensors in one box
MaxTemp == 40      \* classification is checked on -MaxTemp .. MaxTemp
MaxSnapshots == 2  \* readings of the clock taken for snapshots

(* Program constants *)

CACHE_EXPIRATION == 300

SNAPSHOT_INTERVAL == 300

\* Seconds by which the clock may advance in one step (0: less than a second);
\* 300 - 185 = 115 is the TTL the tests use for a fresh entry.
TickSteps == {0, 115, 185}

-----------------------------------------------------------------------------
(* Outcomes of a call: a returned value or a raised exception *)

Return(v) == [kind |-> "return", value |-> v]

\* code is the status_code of an HTTPException and 0 for any other exception
Raise(type, code, msg) == [kind |-> "raise", type |-> type, code |-> code, msg |-> msg]

Returned(o) == o.kind = "return"

-----------------------------------------------------------------------------
(* The durable store and the snapshot task before the application starts *)

\* The bucket is not there yet and holds nothing; puts counts the put_object
\* calls that succeeded
EmptyStore == [bucket |-> FALSE, objects |-> {}, puts |-> 0]

\* app is "down", "up" or "stopped"; pc is "none" (no task), "created" (about
\* to run its first iteration), "sleeping" (with `sleep` seconds left),
\* "cancelled" or "failed" (an exception left the loop); created counts the
\* create_task calls
NoTask == [app |-> "down", pc |-> "none", sleep |-> 0, created |-> 0]

\* await asyncio.sleep(...) while d seconds pass
Slept_Never(t, d) == t

Slept(t, d) == IF t.pc # "sleeping" THEN t
               ELSE [t EXCEPT !.sleep = IF @ > d THEN @ - d ELSE 0]

-----------------------------------------------------------------------------
(* Decimal literals *)

Digits == <<"0", "1", "2", "3", "4", "5", "6", "7", "8", "9">>

IsDigit(c) == \E i \in 1..10 : Digits[i] = c

DigitVal(c) == (CHOOSE i \in 1..10 : Digits[i] = c) - 1

RECURSIVE NatStr(_)
NatStr(n) == IF n < 10 THEN <<Digits[n + 1]>>
             ELSE NatStr(n \div 10) \o <<Digits[(n % 10) + 1]>>

\* str(n), the bytes redis-py stores for an int value
Str(n) == IF n < 0 THEN <<"-">> \o NatStr(0 - n) ELSE NatStr(n)

AllDigits(s) == Len(s) > 0 /\ \A i \in 1..Len(s) : IsDigit(s[i])

RECURSIVE NatOf(_)
NatOf(s) == IF s = <<>> THEN 0
            ELSE 10 * NatOf(SubSeq(s, 1, Len(s) - 1)) + DigitVal(s[Len(s)])

IsIntLiteral(s) == \/ AllDigits(s)
                   \/ Len(s) > 1 /\ s[1] = "-" /\ AllDigits(Tail(s))

\* int(b.decode('utf-8')): the value, or ValueError
IntOf_Unsigned(s) == IF ~IsIntLiteral(s) THEN Raise("ValueError", 0, "invalid literal for int()")
                     ELSE IF s[1] = "-" THEN Return(NatOf(Tail(s)))
                     ELSE Return(NatOf(s))

IntOf(s) == IF ~IsIntLiteral(s) THEN Raise("ValueError", 0, "invalid literal for int()")
            ELSE IF s[1] = "-" THEN Return(0 - NatOf(Tail(s)))
            ELSE Return(NatOf(s))

\* float(s) for the literals of the model: [ok, halves], halves = 2 * value
ParseFloat_Zero(s) == [ok |-> TRUE, halves |-> 0]

ParseFloat(s) ==
    LET neg  == Len(s) > 0 /\ s[1] = "-"
        body == IF neg THEN Tail(s) ELSE s
        dot  == {i \in 1..Len(body) : body[i] = "."}
        ip   == IF dot = {} THEN body
                ELSE SubSeq(body, 1, (CHOOSE i \in dot : TRUE) - 1)
        fp   == IF dot = {} THEN <<>>
                ELSE SubSeq(body, (CHOOSE i \in dot : TRUE) + 1, Len(body))
        ok   == /\ Cardinality(dot) <= 1
                /\ AllDigits(ip)
                /\ dot # {} => fp \in {<<"0">>, <<"5">>}
        mag  == 2 * NatOf(ip) + (IF fp = <<"5">> THEN 1 ELSE 0)
    IN  IF ok THEN [ok |-> TRUE, halves |-> IF neg THEN 0 - mag ELSE mag]
        ELSE [ok |-> FALSE, halves |-> 0]

\* int(a / b) for b > 0: Python truncates toward zero
IntTrunc_Floor(a, b) == a \div b

IntTrunc(a, b) == IF a >= 0 THEN a \div b ELSE 0 - ((0 - a) \div b)

-----------------------------------------------------------------------------
(* The upstream response as the aggregation reads it *)

SeqsUpTo(S, n) == UNION {[1..k -> S] : k \in 0..n}

SensorValues == { <<"-", "2", ".", "5">>, <<"-", "0", ".", "5">>,
                  <<"2", "0">>, <<"3", "0">>, <<"a", "b", "c">> }

Sensors == {[title |-> "Temperatur", value |-> v] : v \in SensorValues}
           \cup {[title |-> "temperature", value |-> <<"2", "2", ".", "5">>]}

\* A box with or without the key "sensors"
SensorBoxes == {[hasSensors |-> TRUE, sensors |-> ss] : ss \in SeqsUpTo(Sensors, MaxSensors)}
               \cup {[hasSensors |-> FALSE, sensors |-> <<>>]}

Responses == SeqsUpTo(SensorBoxes, MaxBoxes)

\* box.get("sensors", [])
BoxSensors(box) == IF box.hasSensors THEN box.sensors ELSE <<>>

\* sensor.get("title") == "Temperatur"
TitleMatches(sensor) == sensor.title = "Temperatur"

\* The inner loop: acc = [measurement (in halves), counter, err]; float() of a
\* value that is no number raises and ends the scan.
RECURSIVE ScanSensors(_, _)
ScanSensors(sensors, acc) ==
    IF sensors = <<>> \/ acc.err THEN acc
    ELSE LET sensor == Head(sensors)
             f      == ParseFloat(sensor.value)
         IN  IF ~TitleMatches(sensor) THEN ScanSensors(Tail(sensors), acc)
             ELSE IF ~f.ok THEN [acc EXCEPT !.counter = @ + 1, !.err = TRUE]
             ELSE ScanSensors(Tail(sensors),
                              [measurement |-> acc.measurement + f.halves,
                               counter     |-> acc.counter + 1,
                               err         |-> FALSE])

\* The outer loop over the boxes
RECURSIVE ScanBoxes(_, _)
ScanBoxes(boxes, acc) ==
    IF boxes = <<>> \/ acc.err THEN acc
    ELSE ScanBoxes(Tail(boxes), ScanSensors(BoxSensors(Head(boxes)), acc))

NoDataFound == Raise("HTTPException", 404, "No temperature data found")

\* counter == 0 is not checked: measurement / counter divides by zero
EmptyCountResult_Unchecked == Raise("ZeroDivisionError", 0, "division by zero")

\* counter == 0 passes for a mean of 0
EmptyCountResult_Zero == Return(0)

EmptyCountResult == NoDataFound

calculate_average_temperature(response) ==
    LET acc == ScanBoxes(response, [measurement |-> 0, counter |-> 0, err |-> FALSE])
    IN  IF acc.err THEN Raise("ValueError", 0, "could not convert string to float")
        ELSE IF acc.counter = 0 THEN EmptyCountResult
        ELSE Return(IntTrunc(acc.measurement, 2 * acc.counter))

-----------------------------------------------------------------------------
(* Classification: the match statement that ends get_temperature *)

IsTooCold(data) == data < 10

IsGood_Gapped(data) == data >= 11 /\ data <= 36

IsGood(data) == data >= 10 /\ data <= 36

IsTooHot(data) == data > 36

Classify(data) ==
    IF IsTooCold(data) THEN Return([temperature |-> data, status |-> "Too cold"])
    ELSE IF IsGood(data) THEN Return([temperature |-> data, status |-> "Good"])
    ELSE IF IsTooHot(data) THEN Return([temperature |-> data, status |-> "Too hot"])
    ELSE Raise("HTTPException", 404, "No Temp data found")

-----------------------------------------------------------------------------
(* The pure functions applied to every input of the bounds *)

TempRange == (0 - MaxTemp)..MaxTemp

InitFn ==
    /\ cache = <<>>
    /\ minio = EmptyStore
    /\ task = NoTask
    /\ clock = 0
    /\ call \in {[op |-> "calculate_average_temperature", phase |-> "pending", arg |-> r]
                    : r \in Responses}
                \cup {[op |-> "classify", phase |-> "pending", arg |-> v] : v \in TempRange}

ApplyCalculate ==
    /\ call.op = "calculate_average_temperature" /\ call.phase = "pending"
    /\ call' = [op |-> call.op, phase |-> "done", arg |-> call.arg,
                res |-> calculate_average_temperature(call.arg)]
    /\ UNCHANGED <<cache, minio, task, clock>>

ApplyClassify ==
    /\ call.op = "classify" /\ call.phase = "pending"
    /\ call' = [op |-> call.op, phase |-> "done", arg |-> call.arg,
                res |-> Classify(call.arg)]
    /\ UNCHANGED <<cache, minio, task, clock>>

NextFn == ApplyCalculate \/ ApplyClassify

SpecFn == InitFn /\ [][NextFn]_vars

-----------------------------------------------------------------------------
(* The environment: Redis and the OpenSenseMap API *)

RedisError == Raise("RedisError", 0, "Error connecting to redis")

\* redis GET / TTL on the key; TTL of a missing key is -2
CacheGet(c) == IF c = <<>> THEN <<>> ELSE <<c[1].val>>

CacheTtl(c) == IF c = <<>> THEN 0 - 2 ELSE c[1].ttl

\* The entry d seconds later: Redis drops it when its time is up
Elapse(c, d) == IF c = <<>> \/ c[1].ttl - d <= 0 THEN <<>>
                ELSE <<[c[1] EXCEPT !.ttl = @ - d]>>

\* redis SET key value EX seconds
CacheSet_Longer(data, ex) == <<[val |-> Str(data), ttl |-> ex + 115]>>

CacheSet_FixedExpiry(data, ex) == <<[val |-> Str(data), ttl |-> 115]>>

CacheSet(data, ex) == <<[val |-> Str(data), ttl |-> ex]>>

\* `if cached_temperature:` on an Optional[bytes]
Truthy_Never(cached) == FALSE

Truthy(cached) == cached # <<>> /\ cached[1] # <<>>

\* What GET /boxes answers: a network failure, an HTTP error status, or a list
UpstreamAnswers(bodies) ==
    {[net |-> "ok", status |-> 200, body |-> b] : b \in bodies}
    \cup {[net |-> "ok", status |-> 500, body |-> <<>>],
          [net |-> "error", status |-> 0, body |-> <<>>]}

fetch_temperature_from_api(answer) ==
    IF answer.net # "ok" THEN Raise("RequestException", 0, "Connection error")
    ELSE IF answer.status >= 400 THEN Raise("RequestException", 0, "500 Server Error")
    ELSE Return(answer.body)

\* One endpoint as the sampler reads it: its "_id" key and what the probe
\* GET /boxes/<id>/sensors answers
Probes == {Return(200), Return(204), Return(500),
           Raise("RequestException", 0, "Read timed out")}

ProbeBoxes == {[hasId |-> TRUE, probe |-> p] : p \in Probes}
              \cup {[hasId |-> FALSE, probe |-> Return(200)]}

ProbeWorlds == SeqsUpTo(ProbeBoxes, MaxBoxes)

-----------------------------------------------------------------------------
(* The availability sampler *)

\* One probe: does it count as inaccessible
ProbeFails(probe) == ~Returned(probe) \/ probe.value # 200

\* The loop over the senseboxes: acc = [inaccessible, probes, exc];
\* sensebox["_id"] of a record without the key raises KeyError out of the loop
RECURSIVE ProbeAll(_, _)
ProbeAll(senseboxes, acc) ==
    IF senseboxes = <<>> \/ acc.exc # <<>> THEN acc
    ELSE LET sensebox == Head(senseboxes)
         IN  IF ~sensebox.hasId
             THEN [acc EXCEPT !.exc = <<Raise("KeyError", 0, "'_id'")>>]
             ELSE ProbeAll(Tail(senseboxes),
                           [inaccessible |-> acc.inaccessible
                                             + (IF ProbeFails(sensebox.probe) THEN 1 ELSE 0),
                            probes       |-> acc.probes + 1,
                            exc          |-> <<>>])

\* [res, fetches, probes]: res is Return(<<total, inaccessible>>) or the exception
count_available_senseboxes_Swapped(answer) ==
    LET response == fetch_temperature_from_api(answer)
        acc      == ProbeAll(response.value, [inaccessible |-> 0, probes |-> 0, exc |-> <<>>])
    IN  IF ~Returned(response) THEN [res |-> response, fetches |-> 1, probes |-> 0]
        ELSE IF acc.exc # <<>> THEN [res |-> acc.exc[1], fetches |-> 1, probes |-> acc.probes]
        ELSE [res |-> Return(<<acc.inaccessible, Len(response.value)>>),
              fetches |-> 1, probes |-> acc.probes]

count_available_senseboxes_Retry(answer) ==
    LET response == fetch_temperature_from_api(answer)
        acc      == ProbeAll(response.value, [inaccessible |-> 0, probes |-> 0, exc |-> <<>>])
    IN  IF ~Returned(response) THEN [res |-> response, fetches |-> 2, probes |-> 0]
        ELSE IF acc.exc # <<>> THEN [res |-> acc.exc[1], fetches |-> 1, probes |-> acc.probes]
        ELSE [res |-> Return(<<Len(response.value), acc.inaccessible>>),
              fetches |-> 1, probes |-> acc.probes]

count_available_senseboxes(answer) ==
    LET response == fetch_temperature_from_api(answer)
        acc      == ProbeAll(response.value, [inaccessible |-> 0, probes |-> 0, exc |-> <<>>])
    IN  IF ~Returned(response) THEN [res |-> response, fetches |-> 1, probes |-> 0]
        ELSE IF acc.exc # <<>> THEN [res |-> acc.exc[1], fetches |-> 1, probes |-> acc.probes]
        ELSE [res |-> Return(<<Len(response.value), acc.inaccessible>>),
              fetches |-> 1, probes |-> acc.probes]

-----------------------------------------------------------------------------
(* readiness_check *)

Verdict(status, message, http) ==
    Return([status |-> status, message |-> message, http |-> http])

Ready == Verdict("ready", "Application is ready", 200)

\* The window ends at 100 instead of 300
IsFresh_Short(ttl) == 0 < ttl /\ ttl < 100

\* The window takes in 300, the TTL of an entry just set
IsFresh_Closed(ttl) == 0 < ttl /\ ttl <= 300

\* The lower end of the window is dropped: the sentinels -1 and -2 pass
IsFresh_Sentinel(ttl) == ttl < 300

\* 0 < cache_timestamp < 300
IsFresh(ttl) == 0 < ttl /\ ttl < 300

\* (inaccessible_boxes / total_boxes) * 100 >= 50, for total_boxes > 0
AtLeastHalf_Strict(inaccessible, total) == inaccessible * 100 > 50 * total

AtLeastHalf(inaccessible, total) == inaccessible * 100 >= 50 * total

NoBoxesVerdict_200 == Verdict("error", "No senseBoxes found", 200)

NoBoxesVerdict == Verdict("error", "No senseBoxes found", 503)

Unavailable == Verdict("unavailable", "More than 50% of senseBoxes are inaccessible.", 503)

\* total_boxes == 0 is not checked: the percentage divides by zero
VerdictOfSample_NoEmptyCheck(total, inaccessible) ==
    IF total = 0
    THEN [outcome |-> Raise("ZeroDivisionError", 0, "division by zero"), pct |-> TRUE]
    ELSE IF AtLeastHalf(inaccessible, total) THEN [outcome |-> Unavailable, pct |-> TRUE]
    ELSE [outcome |-> Ready, pct |-> TRUE]

\* What follows the sample: [outcome, pct]; pct says whether the percentage
\* was computed
VerdictOfSample(total, inaccessible) ==
    IF total = 0 THEN [outcome |-> NoBoxesVerdict, pct |-> FALSE]
    ELSE IF AtLeastHalf(inaccessible, total)
    THEN [outcome |-> Unavailable, pct |-> TRUE]
    ELSE [outcome |-> Ready, pct |-> TRUE]

\* except (requests.RequestException, redis.RedisError) as e
Caught(exc) == exc.type \in {"RequestException", "RedisError"}

\* The handler answers ready instead of reporting the error
Handle_FailOpen(exc) == IF Caught(exc) THEN Ready ELSE exc

Handle(exc) == IF Caught(exc) THEN Verdict("error", exc.msg, 503) ELSE exc

\* The short-circuit on a fresh entry
ShortCircuit_Never(cached, ttl) == FALSE

ShortCircuit(cached, ttl) == Truthy(cached) /\ IsFresh(ttl)

\* getAns, ttlAns: what Redis answers to GET and to TTL; answer: what the
\* upstream answers to GET /boxes.  The result says what was invoked.
readiness_check(getAns, ttlAns, answer) ==
    LET none   == [outcome |-> Ready, ttls |-> 0, samples |-> 0, fetches |-> 0, probes |-> 0,
                   sample |-> <<>>, pct |-> FALSE]
        sample == count_available_senseboxes(answer)
        after  == [none EXCEPT !.ttls = IF Truthy(getAns.value) THEN 1 ELSE 0,
                               !.samples = 1,
                               !.fetches = sample.fetches,
                               !.probes = sample.probes]
        v      == VerdictOfSample(sample.res.value[1], sample.res.value[2])
    IN  IF ~Returned(getAns) THEN [none EXCEPT !.outcome = Handle(getAns)]
        ELSE IF Truthy(getAns.value) /\ ~Returned(ttlAns)
        THEN [none EXCEPT !.ttls = 1, !.outcome = Handle(ttlAns)]
        ELSE IF ShortCircuit(getAns.value, ttlAns.value)
        THEN [none EXCEPT !.ttls = 1, !.outcome = Ready]
        ELSE IF ~Returned(sample.res)
        THEN [after EXCEPT !.outcome = Handle(sample.res)]
        ELSE [after EXCEPT !.sample = <<sample.res.value>>,
                           !.pct = v.pct,
                           !.outcome = IF Returned(v.outcome) THEN v.outcome
                                       ELSE Handle(v.outcome)]

\* GET /readyz: JSONResponse(content=readiness_status, status_code=status_code)
readyz(outcome) ==
    IF Returned(outcome)
    THEN Return([code |-> outcome.value.http,
                 body |-> [status |-> outcome.value.status,
                           message |-> outcome.value.message]])
    ELSE outcome

-----------------------------------------------------------------------------
(* The read path *)

\* [outcome, gets, fetches, aggregations, write]: gets counts the reads of the
\* key, write is <<>> or <<data>>, the value stored with SET ... EX
\* CACHE_EXPIRATION.  setAns is Redis's answer to SET.
get_temperature_HitGood(getAns, answer, setAns) ==
    LET none     == [outcome |-> getAns, gets |-> 1, fetches |-> 0, aggregations |-> 0,
                     hit |-> 0, miss |-> 0, write |-> <<>>]
        data     == IntOf(getAns.value[1])
        response == fetch_temperature_from_api(answer)
        average  == calculate_average_temperature(response.value)
    IN  IF ~Returned(getAns) THEN none
        ELSE IF Truthy(getAns.value)
        THEN [none EXCEPT !.hit = 1,
                          !.outcome = IF Returned(data)
                                      THEN Return([temperature |-> data.value,
                                                   status |-> "Good"])
                                      ELSE data]
        ELSE IF ~Returned(response)
        THEN [none EXCEPT !.miss = 1, !.fetches = 1, !.outcome = response]
        ELSE IF ~Returned(average)
        THEN [none EXCEPT !.miss = 1, !.fetches = 1, !.aggregations = 1,
                          !.outcome = average]
        ELSE IF ~Returned(setAns)
        THEN [none EXCEPT !.miss = 1, !.fetches = 1, !.aggregations = 1,
                          !.outcome = setAns]
        ELSE [none EXCEPT !.miss = 1, !.fetches = 1, !.aggregations = 1,
                          !.write = <<average.value>>,
                          !.outcome = Classify(average.value)]

get_temperature(getAns, answer, setAns) ==
    LET none     == [outcome |-> getAns, gets |-> 1, fetches |-> 0, aggregations |-> 0,
                     hit |-> 0, miss |-> 0, write |-> <<>>]
        data     == IntOf(getAns.value[1])
        response == fetch_temperature_from_api(answer)
        average  == calculate_average_temperature(response.value)
    IN  IF ~Returned(getAns) THEN none
        ELSE IF Truthy(getAns.value)
        THEN [none EXCEPT !.hit = 1,
                          !.outcome = IF Returned(data) THEN Classify(data.value) ELSE data]
        ELSE IF ~Returned(response)
        THEN [none EXCEPT !.miss = 1, !.fetches = 1, !.outcome = response]
        ELSE IF ~Returned(average)
        THEN [none EXCEPT !.miss = 1, !.fetches = 1, !.aggregations = 1,
                          !.outcome = average]
        ELSE IF ~Returned(setAns)
        THEN [none EXCEPT !.miss = 1, !.fetches = 1, !.aggregations = 1,
                          !.outcome = setAns]
        ELSE [none EXCEPT !.miss = 1, !.fetches = 1, !.aggregations = 1,
                          !.write = <<average.value>>,
                          !.outcome = Classify(average.value)]

\* GET /temperature: an HTTPException passes, any other exception becomes a 500
temperature_Unmapped(outcome) == outcome

temperature(outcome) ==
    IF Returned(outcome) \/ outcome.type = "HTTPException" THEN outcome
    ELSE Raise("HTTPException", 500, outcome.msg)

-----------------------------------------------------------------------------
(* The system: the cache entry, the clock and the two handlers *)

\* The responses the read path meets: at most one box
ReadResponses == {r \in Responses : Len(r) <= 1}

Init ==
    /\ cache = <<>>
    /\ call = [op |-> "init"]
    /\ minio = EmptyStore
    /\ task = NoTask
    /\ clock = 0

\* A handler runs to its end before the next request is taken (the handlers are
\* coroutines that never await), and some time in TickSteps passes in between.
Idle == call.op \in {"init", "tick"}

\* Time passes; the entry's TTL runs down and the entry expires, and a
\* sleeping snapshot task comes closer to waking
Tick ==
    \E d \in TickSteps :
        /\ cache' = Elapse(cache, d)
        /\ call' = [op |-> "tick", d |-> d]
        /\ task' = Slept(task, d)
        /\ UNCHANGED <<minio, clock>>

\* GET /temperature
GetTemperature ==
    \E getErr \in BOOLEAN, setErr \in BOOLEAN, answer \in UpstreamAnswers(ReadResponses) :
        LET getAns == IF getErr THEN RedisError ELSE Return(CacheGet(cache))
            setAns == IF setErr THEN RedisError ELSE Return(TRUE)
            r      == get_temperature(getAns, answer, setAns)
        IN  /\ Idle
            /\ cache' = IF r.write = <<>> THEN cache
                        ELSE CacheSet(r.write[1], CACHE_EXPIRATION)
            /\ call' = [op |-> "temperature", getAns |-> getAns, answer |-> answer,
                        setAns |-> setAns, before |-> cache, r |-> r,
                        resp |-> temperature(r.outcome)]
            /\ UNCHANGED <<minio, task, clock>>

\* GET /readyz.  d seconds pass between the GET and the TTL round trips, so the
\* entry may expire in between.
ReadinessCheck ==
    \E getErr \in BOOLEAN, ttlErr \in BOOLEAN, d \in TickSteps,
       answer \in UpstreamAnswers(ProbeWorlds) :
        LET getAns == IF getErr THEN RedisError ELSE Return(CacheGet(cache))
            later  == Elapse(cache, d)
            ttlAns == IF ttlErr THEN RedisError ELSE Return(CacheTtl(later))
            r      == readiness_check(getAns, ttlAns, answer)
        IN  /\ Idle
            /\ r.ttls = 0 => d = 0 /\ ~ttlErr
            /\ cache' = later
            /\ call' = [op |-> "readyz", getAns |-> getAns, ttlAns |-> ttlAns,
                        answer |-> answer, before |-> cache, r |-> r,
                        resp |-> readyz(r.outcome)]
            /\ UNCHANGED <<minio, task, clock>>

Next == Tick \/ GetTemperature \/ ReadinessCheck

Spec == Init /\ [][Next]_vars

-----------------------------------------------------------------------------
(* The durable store: store_temperature_in_minio *)

S3Error == Raise("S3Error", 0, "S3 operation failed")

\* datetime.now().isoformat(): the reading of the clock as text.  Readings are
\* numbered in the clock's own resolution, so two readings differ.
Isoformat_Coarse(now) == NatStr((now + 1) \div 2)

Isoformat(now) == NatStr(now)

\* f"temperature_{timestamp}.json"
ObjectName(timestamp) == <<"temperature_">> \o timestamp \o <<".json">>

\* json.dumps({"timestamp": timestamp, "temperature": temp}).encode('utf-8')
JsonDumps_Swapped(timestamp, temp) ==
    <<"{\"timestamp\": \"">> \o Str(temp) \o <<"\", \"temperature\": ">> \o timestamp \o <<"}">>

JsonDumps(timestamp, temp) ==
    <<"{\"timestamp\": \"">> \o timestamp \o <<"\", \"temperature\": ">> \o Str(temp) \o <<"}">>

\* minio_client.put_object: an object of the same name is replaced
PutObject(objects, object_name, data_bytes) ==
    {o \in objects : o.name # object_name}
        \cup {[name |-> object_name, data |-> data_bytes]}

\* `if not minio_client.bucket_exists(MINIO_BUCKET):`
BucketMissing_Always(existsAns) == TRUE

BucketMissing(existsAns) == ~existsAns.value

\* The store and the counters of a call that was never made
NotStored(m) == [outcome |-> Return("None"), minio |-> m,
                 checks |-> 0, makes |-> 0, stamped |-> 0, handed |-> <<>>]

\* existsAns, makeAns and putAns are MinIO's answers to bucket_exists,
\* make_bucket and put_object; now is what datetime.now() reads.
\* [outcome, minio, checks, makes, stamped, handed]: the store afterwards,
\* the calls to bucket_exists and make_bucket, whether the clock was read, and
\* the argument temp.
store_temperature_in_minio(temp, m, now, existsAns, makeAns, putAns) ==
    LET called      == [NotStored(m) EXCEPT !.checks = 1, !.handed = <<temp>>]
        timestamp   == Isoformat(now)
        object_name == ObjectName(timestamp)
        data_bytes  == JsonDumps(timestamp, temp)
        made        == IF ~BucketMissing(existsAns) THEN called
                       ELSE [called EXCEPT !.makes = 1, !.minio.bucket = TRUE]
    IN  IF ~Returned(existsAns) THEN [called EXCEPT !.outcome = existsAns]
        ELSE IF BucketMissing(existsAns) /\ ~Returned(makeAns)
        THEN [called EXCEPT !.makes = 1,
                            !.outcome = Raise("HTTPException", 500,
                                              "Failed to create MinIO bucket")]
        ELSE IF ~Returned(putAns) THEN [made EXCEPT !.stamped = 1]
        ELSE [made EXCEPT !.stamped = 1,
                          !.minio.objects = PutObject(@, object_name, data_bytes),
                          !.minio.puts = @ + 1]

-----------------------------------------------------------------------------
(* The snapshot loop: store_temperature_periodically *)

\* except (requests.RequestException, redis.RedisError, S3Error) around the
\* whole iteration
OuterCaught(e) == e.type \in {"RequestException", "RedisError", "S3Error"}

\* except HTTPException / except (ValueError, TypeError) around the miss branch
InnerCaught(e) == e.type \in {"HTTPException", "ValueError", "TypeError"}

\* One iteration, up to the sleep.  [escaped, logged, fetches, aggregations,
\* sets, store]: the exception that left the loop or the one that was logged
\* (<<>> for none), the calls to the upstream, to the aggregation and to
\* redis_client.set, and what store_temperature_in_minio did.
store_temperature_periodically(getAns, answer, m, now, existsAns, makeAns, putAns) ==
    LET none     == [escaped |-> <<>>, logged |-> <<>>, fetches |-> 0,
                     aggregations |-> 0, sets |-> 0, store |-> NotStored(m)]
        current_temperature == IntOf(getAns.value[1])
        response == fetch_temperature_from_api(answer)
        temperature_value == calculate_average_temperature(response.value)
        stored(temp) == store_temperature_in_minio(temp, m, now, existsAns, makeAns, putAns)
        hit      == [none EXCEPT !.store = stored(current_temperature.value)]
        miss     == [none EXCEPT !.fetches = 1, !.aggregations = 1,
                                 !.store = stored(temperature_value.value)]
    IN  IF ~Returned(getAns) THEN [none EXCEPT !.logged = <<getAns>>]
        ELSE IF Truthy(getAns.value)
        THEN IF ~Returned(current_temperature)
             THEN [none EXCEPT !.escaped = <<current_temperature>>]
             ELSE IF Returned(hit.store.outcome) THEN hit
             ELSE IF OuterCaught(hit.store.outcome)
             THEN [hit EXCEPT !.logged = <<hit.store.outcome>>]
             ELSE [hit EXCEPT !.escaped = <<hit.store.outcome>>]
        ELSE IF ~Returned(response)
        THEN IF InnerCaught(response) \/ OuterCaught(response)
             THEN [none EXCEPT !.fetches = 1, !.logged = <<response>>]
             ELSE [none EXCEPT !.fetches = 1, !.escaped = <<response>>]
        ELSE IF ~Returned(temperature_value)
        THEN IF InnerCaught(temperature_value) \/ OuterCaught(temperature_value)
             THEN [none EXCEPT !.fetches = 1, !.aggregations = 1,
                               !.logged = <<temperature_value>>]
             ELSE [none EXCEPT !.fetches = 1, !.aggregations = 1,
                               !.escaped = <<temperature_value>>]
        ELSE IF Returned(miss.store.outcome) THEN miss
        ELSE IF InnerCaught(miss.store.outcome) \/ OuterCaught(miss.store.outcome)
        THEN [miss EXCEPT !.logged = <<miss.store.outcome>>]
        ELSE [miss EXCEPT !.escaped = <<miss.store.outcome>>]

\* The task after an iteration: asleep for the interval, or ended by the
\* exception that left the loop
AfterIteration(t, r) ==
    IF r.escaped = <<>> THEN [t EXCEPT !.pc = "sleeping", !.sleep = SNAPSHOT_INTERVAL]
    ELSE [t EXCEPT !.pc = "failed", !.sleep = 0]

\* The task is about to run an iteration: just created, or its sleep is over
Due_Sleeping(t) == t.pc \in {"created", "sleeping"}

Due(t) == t.pc = "created" \/ (t.pc = "sleeping" /\ t.sleep = 0)

-----------------------------------------------------------------------------
(* The application: lifespan and GET /store *)

\* task = asyncio.create_task(store_temperature_periodically())
CreateTask(t) == [t EXCEPT !.app = "up", !.pc = "created", !.created = @ + 1]

\* task.cancel() and await task: CancelledError is raised in a task that has
\* not ended, at the sleep it is suspended in or before its first step
Cancel_Ignored(t) == [t EXCEPT !.app = "stopped"]

Cancel(t) == [t EXCEPT !.app = "stopped",
                       !.pc = IF @ \in {"created", "sleeping"} THEN "cancelled" ELSE @,
                       !.sleep = 0]

\* GET /store: [outcome, read, store]
store_temperature_direct_Zero(getAns, answer, setAns, m, now, existsAns, makeAns, putAns) ==
    LET current_temperature == get_temperature(getAns, answer, setAns)
        stored == store_temperature_in_minio(0, m, now, existsAns, makeAns, putAns)
    IN  [outcome |-> IF Returned(current_temperature.outcome) THEN stored.outcome
                     ELSE current_temperature.outcome,
         read |-> current_temperature, store |-> stored]

store_temperature_direct(getAns, answer, setAns, m, now, existsAns, makeAns, putAns) ==
    LET current_temperature == get_temperature(getAns, answer, setAns)
        stored == store_temperature_in_minio(current_temperature.outcome.value.temperature,
                                             m, now, existsAns, makeAns, putAns)
    IN  IF ~Returned(current_temperature.outcome)
        THEN [outcome |-> current_temperature.outcome, read |-> current_temperature,
              store |-> NotStored(m)]
        ELSE [outcome |-> stored.outcome, read |-> current_temperature,
              store |-> stored]

\* The lists the upstream answers with while snapshots are taken
SnapshotResponses ==
    { <<>>,
      << [hasSensors |-> TRUE,
          sensors |-> << [title |-> "Temperatur", value |-> <<"2", "0">>] >>] >>,
      << [hasSensors |-> TRUE,
          sensors |-> << [title |-> "Temperatur", value |-> <<"-", "2", ".", "5">>] >>] >>,
      << [hasSensors |-> TRUE,
          sensors |-> << [title |-> "Temperatur", value |-> <<"a", "b", "c">>] >>] >> }

\* MinIO's answers, and the inputs an operation never reads held at one value
ExistsAns(err) == IF err THEN S3Error ELSE Return(minio.bucket)

Answer(err, exc) == IF err THEN exc ELSE Return(TRUE)

Unread(store, existsErr, makeErr, putErr) ==
    \/ store.checks = 0 /\ existsErr
    \/ store.makes = 0 /\ makeErr
    \/ store.stamped = 0 /\ putErr

\* Application startup: the lifespan creates the task
Startup ==
    /\ task.app = "down"
    /\ task' = CreateTask(task)
    /\ call' = [op |-> "startup"]
    /\ UNCHANGED <<cache, minio, clock>>

\* Application shutdown: the lifespan cancels the task and awaits it
Shutdown ==
    /\ task.app = "up" /\ Idle
    /\ task' = Cancel(task)
    /\ call' = [op |-> "shutdown", before |-> task, stored |-> minio]
    /\ UNCHANGED <<cache, minio, clock>>

\* Redis's answer to GET, and to SET
GetAns(err) == IF err THEN RedisError ELSE Return(CacheGet(cache))

SetAns(err) == IF err THEN RedisError ELSE Return(TRUE)

\* The iteration with result r takes effect
Iterated(getAns, answer, existsErr, makeErr, putErr, r) ==
    /\ task.app = "up" /\ Idle /\ Due(task)
    /\ clock < MaxSnapshots
    /\ ~Unread(r.store, existsErr, makeErr, putErr)
    /\ r.fetches = 0 => answer = [net |-> "error", status |-> 0, body |-> <<>>]
    /\ minio' = r.store.minio
    /\ clock' = clock + r.store.stamped
    /\ task' = AfterIteration(task, r)
    /\ call' = [op |-> "snapshot", getAns |-> getAns, answer |-> answer,
                errs |-> [exists |-> existsErr, make |-> makeErr, put |-> putErr],
                before |-> cache, stored |-> minio, was |-> task, r |-> r]
    /\ UNCHANGED cache

\* One iteration of the snapshot loop.  It never awaits before its sleep, so
\* it runs to the sleep without any other handler in between.
Iterate ==
    \E getErr \in BOOLEAN, answer \in UpstreamAnswers(SnapshotResponses),
       existsErr \in BOOLEAN, makeErr \in BOOLEAN, putErr \in BOOLEAN :
        Iterated(GetAns(getErr), answer, existsErr, makeErr, putErr,
                 store_temperature_periodically(GetAns(getErr), answer, minio, clock + 1,
                     ExistsAns(existsErr), Answer(makeErr, S3Error),
                     Answer(putErr, S3Error)))

\* The request with result r takes effect
StoredDirect(getAns, answer, setErr, existsErr, makeErr, putErr, r) ==
    /\ task.app = "up" /\ Idle
    /\ clock < MaxSnapshots
    /\ ~Unread(r.store, existsErr, makeErr, putErr)
    /\ r.read.fetches = 0 => answer = [net |-> "error", status |-> 0, body |-> <<>>]
    /\ setErr => r.read.aggregations = 1 /\ r.read.outcome = RedisError
    /\ cache' = IF r.read.write = <<>> THEN cache
                ELSE CacheSet(r.read.write[1], CACHE_EXPIRATION)
    /\ minio' = r.store.minio
    /\ clock' = clock + r.store.stamped
    /\ call' = [op |-> "store", getAns |-> getAns, answer |-> answer,
                setAns |-> SetAns(setErr),
                errs |-> [exists |-> existsErr, make |-> makeErr, put |-> putErr],
                before |-> cache, stored |-> minio, r |-> r]
    /\ UNCHANGED task

\* GET /store
StoreDirect ==
    \E getErr \in BOOLEAN, setErr \in BOOLEAN, answer \in UpstreamAnswers(SnapshotResponses),
       existsErr \in BOOLEAN, makeErr \in BOOLEAN, putErr \in BOOLEAN :
        StoredDirect(GetAns(getErr), answer, setErr, existsErr, makeErr, putErr,
                     store_temperature_direct(GetAns(getErr), answer, SetAns(setErr), minio,
                         clock + 1, ExistsAns(existsErr), Answer(makeErr, S3Error),
                         Answer(putErr, S3Error)))

NextStore == Startup \/ Shutdown \/ Tick \/ Iterate \/ StoreDirect

SpecStore == Init /\ [][NextStore]_vars

-----------------------------------------------------------------------------
(* The single-file application main.py: its read path and its snapshot loop *)

\* The match statement that ends main.temperature
main_classify(data) ==
    IF data < 10 THEN Return([temperature |-> data, status |-> "Too cold"])
    ELSE IF data >= 11 \/ data <= 36
    THEN Return([temperature |-> data, status |-> "Good"])
    ELSE IF data > 37 THEN Return([temperature |-> data, status |-> "Too hot"])
    ELSE Raise("HTTPException", 404, "No Temp data found")

\* main.temperature: [outcome, fetches, write]
main_temperature(getAns, answer, setAns) ==
    LET none == [outcome |-> getAns, fetches |-> 0, write |-> <<>>]
        data == IntOf(getAns.value[1])
        acc  == ScanBoxes(answer.body, [measurement |-> 0, counter |-> 0, err |-> FALSE])
        mean == IntTrunc(acc.measurement, 2 * acc.counter)
    IN  IF ~Returned(getAns) THEN none
        ELSE IF Truthy(getAns.value)
        THEN [none EXCEPT !.outcome = IF Returned(data) THEN main_classify(data.value)
                                      ELSE data]
        ELSE IF answer.net # "ok"
        THEN [none EXCEPT !.fetches = 1,
                          !.outcome = Raise("HTTPException", 500, "Connection error")]
        ELSE IF acc.err
        THEN [none EXCEPT !.fetches = 1,
                          !.outcome = Raise("ValueError", 0,
                                            "could not convert string to float")]
        ELSE IF acc.counter = 0
        THEN [none EXCEPT !.fetches = 1,
                          !.outcome = Raise("HTTPException", 404, "No Temp data found")]
        ELSE IF ~Returned(setAns)
        THEN [none EXCEPT !.fetches = 1, !.outcome = setAns]
        ELSE [none EXCEPT !.fetches = 1, !.write = <<mean>>,
                          !.outcome = main_classify(mean)]

\* main.store_temperature_in_minio: no bucket check, the S3Error of put_object
\* is logged
main_store_temperature_in_minio(temp, m, now, putAns) ==
    LET called      == [NotStored(m) EXCEPT !.stamped = 1, !.handed = <<temp>>]
        timestamp   == Isoformat(now)
        object_name == ObjectName(timestamp)
        data_bytes  == JsonDumps(timestamp, temp)
    IN  IF ~Returned(putAns) THEN called
        ELSE [called EXCEPT !.minio.objects = PutObject(@, object_name, data_bytes),
                            !.minio.puts = @ + 1]

\* One iteration of main.store_temperature_periodically, up to the sleep; on a
\* miss it calls main.temperature, which reads the key again (againAns)
main_store_temperature_periodically(getAns, againAns, answer, setAns, m, now, putAns) ==
    LET none   == [escaped |-> <<>>, logged |-> <<>>, fetches |-> 0,
                   sets |-> 0, write |-> <<>>, store |-> NotStored(m)]
        current_temperature == IntOf(getAns.value[1])
        result == main_temperature(againAns, answer, setAns)
        read   == [none EXCEPT !.fetches = result.fetches,
                               !.sets = Len(result.write),
                               !.write = result.write]
        stored(temp) == main_store_temperature_in_minio(temp, m, now, putAns)
    IN  IF ~Returned(getAns) THEN [none EXCEPT !.logged = <<getAns>>]
        ELSE IF Truthy(getAns.value)
        THEN IF ~Returned(current_temperature)
             THEN [none EXCEPT !.escaped = <<current_temperature>>]
             ELSE [none EXCEPT !.store = stored(current_temperature.value)]
        ELSE IF ~Returned(result.outcome)
        THEN IF InnerCaught(result.outcome) \/ OuterCaught(result.outcome)
             THEN [read EXCEPT !.logged = <<result.outcome>>]
             ELSE [read EXCEPT !.escaped = <<result.outcome>>]
        ELSE [read EXCEPT !.store = stored(result.outcome.value.temperature)]

\* What the upstream answers to main.temperature: a network failure or a list
MainAnswers == {a \in UpstreamAnswers(SnapshotResponses) : a.status # 500}

\* Startup of main.py: the bucket is created at import, then the lifespan
\* creates the task
MainStartup ==
    /\ task.app = "down"
    /\ minio' = [minio EXCEPT !.bucket = TRUE]
    /\ task' = CreateTask(task)
    /\ call' = [op |-> "startup"]
    /\ UNCHANGED <<cache, clock>>

\* The iteration of main.py with result r takes effect
MainIterated(getAns, againErr, answer, setErr, putErr, r) ==
    /\ task.app = "up" /\ Idle /\ Due(task)
    /\ clock < MaxSnapshots
    /\ r.store.stamped = 0 => ~putErr
    /\ r.fetches = 0 => answer = [net |-> "error", status |-> 0, body |-> <<>>]
    /\ againErr => Returned(getAns) /\ ~Truthy(getAns.value)
    /\ setErr => r.logged = <<RedisError>> /\ r.fetches = 1
    /\ cache' = IF r.write = <<>> THEN cache
                ELSE CacheSet(r.write[1], CACHE_EXPIRATION)
    /\ minio' = r.store.minio
    /\ clock' = clock + r.store.stamped
    /\ task' = AfterIteration(task, r)
    /\ call' = [op |-> "snapshot", getAns |-> getAns, answer |-> answer,
                before |-> cache, stored |-> minio, was |-> task, r |-> r]

\* One iteration of the snapshot loop of main.py
MainIterate ==
    \E getErr \in BOOLEAN, againErr \in BOOLEAN, setErr \in BOOLEAN,
       answer \in MainAnswers, putErr \in BOOLEAN :
        MainIterated(GetAns(getErr), againErr, answer, setErr, putErr,
                     main_store_temperature_periodically(GetAns(getErr), GetAns(againErr),
                         answer, SetAns(setErr), minio, clock + 1,
                         Answer(putErr, S3Error)))

NextMain == MainStartup \/ Tick \/ MainIterate

SpecMain == Init /\ [][NextMain]_vars

-----------------------------------------------------------------------------
(* Single calls: one read-path call, one readiness evaluation or one loop   *)
(* iteration, on every input of the bounds                                  *)

\* The cache as a call may find it: empty, or holding 20 with 115 seconds left
OnceCaches == {<<>>, <<[val |-> <<"2", "0">>, ttl |-> 115]>>}

\* The call that is about to run and the answers it will get
PendingReads ==
    {[op |-> "pending", run |-> "temperature", getErr |-> FALSE, setErr |-> FALSE,
      answer |-> a] : a \in UpstreamAnswers(Responses)}
    \cup {[op |-> "pending", run |-> "temperature", getErr |-> g, setErr |-> s,
           answer |-> a] : g \in BOOLEAN, s \in BOOLEAN,
                           a \in UpstreamAnswers(SnapshotResponses)}

PendingReadiness ==
    {[op |-> "pending", run |-> "readyz", getErr |-> g, ttlErr |-> t, answer |-> a]
        : g \in BOOLEAN, t \in BOOLEAN, a \in UpstreamAnswers(ProbeWorlds)}

PendingIterations ==
    {[op |-> "pending", run |-> "snapshot", getErr |-> g, answer |-> a,
      errs |-> [exists |-> e, make |-> m, put |-> p]]
        : g \in BOOLEAN, a \in UpstreamAnswers(SnapshotResponses),
          e \in BOOLEAN, m \in BOOLEAN, p \in BOOLEAN}

InitOnce ==
    /\ cache \in OnceCaches
    /\ call \in PendingReads \cup PendingReadiness \cup PendingIterations
    /\ minio = EmptyStore
    /\ task = CreateTask(NoTask)
    /\ clock = 0

\* The effects of the three calls, r being what the call did
RanTemperature(getAns, setAns, r) ==
    /\ cache' = IF r.write = <<>> THEN cache
                ELSE CacheSet(r.write[1], CACHE_EXPIRATION)
    /\ call' = [op |-> "temperature", getAns |-> getAns, answer |-> call.answer,
                setAns |-> setAns, before |-> cache, r |-> r,
                resp |-> temperature(r.outcome)]
    /\ UNCHANGED <<minio, task, clock>>

RanReadiness(getAns, ttlAns, r) ==
    /\ call' = [op |-> "readyz", getAns |-> getAns, ttlAns |-> ttlAns,
                answer |-> call.answer, before |-> cache, r |-> r,
                resp |-> readyz(r.outcome)]
    /\ UNCHANGED <<cache, minio, task, clock>>

RanIteration(getAns, r) ==
    /\ minio' = r.store.minio
    /\ clock' = clock + r.store.stamped
    /\ task' = AfterIteration(task, r)
    /\ call' = [op |-> "snapshot", getAns |-> getAns, answer |-> call.answer,
                errs |-> call.errs, before |-> cache, stored |-> minio,
                was |-> task, r |-> r]
    /\ UNCHANGED cache

RunTemperature ==
    /\ call.op = "pending" /\ call.run = "temperature"
    /\ RanTemperature(GetAns(call.getErr), SetAns(call.setErr),
                      get_temperature(GetAns(call.getErr), call.answer,
                                      SetAns(call.setErr)))

RunReadiness ==
    /\ call.op = "pending" /\ call.run = "readyz"
    /\ RanReadiness(GetAns(call.getErr),
                    IF call.ttlErr THEN RedisError ELSE Return(CacheTtl(cache)),
                    readiness_check(GetAns(call.getErr),
                        IF call.ttlErr THEN RedisError ELSE Return(CacheTtl(cache)),
                        call.answer))

RunIteration ==
    /\ call.op = "pending" /\ call.run = "snapshot"
    /\ RanIteration(GetAns(call.getErr),
                    store_temperature_periodically(GetAns(call.getErr), call.answer,
                        minio, clock + 1, ExistsAns(call.errs.exists),
                        Answer(call.errs.make, S3Error), Answer(call.errs.put, S3Error)))

NextOnce == RunTemperature \/ RunReadiness \/ RunIteration

SpecOnce == InitOnce /\ [][NextOnce]_vars

-----------------------------------------------------------------------------
(* The two /temperature handlers on the same cached value *)

\* A request about to be served from an entry that holds v
InitBoth ==
    /\ call \in {[op |-> "pending", arg |-> v] : v \in TempRange}
    /\ cache = CacheSet(call.arg, CACHE_EXPIRATION)
    /\ minio = EmptyStore
    /\ task = NoTask
    /\ clock = 0

\* Both handlers answered: main.temperature and app.services.get_temperature
AnsweredBoth(legacy, packaged) ==
    /\ call.op = "pending"
    /\ call' = [op |-> "both", arg |-> call.arg, getAns |-> GetAns(FALSE),
                legacy |-> legacy, packaged |-> packaged]
    /\ UNCHANGED <<cache, minio, task, clock>>

AnswerBoth ==
    \E answer \in {[net |-> "error", status |-> 0, body |-> <<>>]} :
        AnsweredBoth(main_temperature(GetAns(FALSE), answer, SetAns(FALSE)).outcome,
                     get_temperature(GetAns(FALSE), answer, SetAns(FALSE)).outcome)

NextBoth == AnswerBoth

SpecBoth == InitBoth /\ [][NextBoth]_vars

-----------------------------------------------------------------------------
(* The snapshot loop while Redis, the upstream and MinIO all answer *)

\* The upstream's answers that are no failure: 200 and a list
HealthyAnswers ==
    {a \in UpstreamAnswers(SnapshotResponses) : a.net = "ok" /\ a.status = 200}

\* The entry the application finds in Redis when it starts
InitLive ==
    /\ cache \in OnceCaches
    /\ call = [op |-> "init"]
    /\ minio = EmptyStore
    /\ task = NoTask
    /\ clock = 0

\* One iteration of the loop in which no call to Redis, to the upstream or to
\* MinIO fails
HealthyIterate ==
    \E answer \in {a \in UpstreamAnswers(SnapshotResponses) :
                      a \in HealthyAnswers \/ Truthy(CacheGet(cache))} :
        Iterated(GetAns(FALSE), answer, FALSE, FALSE, FALSE,
                 store_temperature_periodically(GetAns(FALSE), answer, minio, clock + 1,
                     ExistsAns(FALSE), Answer(FALSE, S3Error), Answer(FALSE, S3Error)))

\* Time does pass
Advance == Tick /\ call'.d > 0

NextLive == Startup \/ Shutdown \/ Tick \/ HealthyIterate

\* The event loop runs a task that is ready (a task just created, a sleep
\* that is over), and the clock advances
SpecLive ==
    /\ InitLive /\ [][NextLive]_vars
    /\ WF_vars(Startup) /\ WF_vars(Advance) /\ WF_vars(HealthyIterate)

-----------------------------------------------------------------------------
(* The whole application: the three routes and the snapshot loop *)

\* The requests and iterations of this specification meet the upstream's
\* lists of SnapshotResponses, at most one endpoint to probe, and a durable
\* store that answers
AppWorlds ==
    { <<>>,
      << [hasId |-> TRUE, probe |-> Return(200)] >>,
      << [hasId |-> TRUE, probe |-> Raise("RequestException", 0, "Read timed out")] >> }

\* The read with result r takes effect; an answer that is not read is held
\* at one value
ReadTemperature(getAns, answer, setErr, r) ==
    /\ Idle
    /\ r.fetches = 0 => answer = [net |-> "error", status |-> 0, body |-> <<>>]
    /\ setErr => r.aggregations = 1 /\ r.outcome = RedisError
    /\ cache' = IF r.write = <<>> THEN cache
                ELSE CacheSet(r.write[1], CACHE_EXPIRATION)
    /\ call' = [op |-> "temperature", getAns |-> getAns, answer |-> answer,
                setAns |-> SetAns(setErr), before |-> cache, r |-> r,
                resp |-> temperature(r.outcome)]
    /\ UNCHANGED <<minio, task, clock>>

\* GET /temperature
AppTemperature ==
    \E getErr \in BOOLEAN, setErr \in BOOLEAN,
       answer \in UpstreamAnswers(SnapshotResponses) :
        ReadTemperature(GetAns(getErr), answer, setErr,
                        get_temperature(GetAns(getErr), answer, SetAns(setErr)))

\* Redis's answer to TTL, d seconds after the GET
TtlAns(err, d) == IF err THEN RedisError ELSE Return(CacheTtl(Elapse(cache, d)))

\* The readiness check with result r takes effect
CheckedReadiness(getAns, ttlErr, d, answer, r) ==
    /\ Idle
    /\ r.ttls = 0 => d = 0 /\ ~ttlErr
    /\ r.fetches = 0 => answer = [net |-> "error", status |-> 0, body |-> <<>>]
    /\ cache' = Elapse(cache, d)
    /\ call' = [op |-> "readyz", getAns |-> getAns, ttlAns |-> TtlAns(ttlErr, d),
                answer |-> answer, before |-> cache, r |-> r,
                resp |-> readyz(r.outcome)]
    /\ UNCHANGED <<minio, task, clock>>

\* GET /readyz
AppReadyz ==
    \E getErr \in BOOLEAN, ttlErr \in BOOLEAN, d \in TickSteps,
       answer \in UpstreamAnswers(AppWorlds) :
        CheckedReadiness(GetAns(getErr), ttlErr, d, answer,
                         readiness_check(GetAns(getErr), TtlAns(ttlErr, d), answer))

AppStore ==
    StoreDirect /\ ~call'.errs.exists /\ ~call'.errs.make /\ ~call'.errs.put

NextApp ==
    \/ Startup \/ Tick
    \/ AppTemperature \/ AppReadyz \/ AppStore \/ HealthyIterate

SpecApp == Init /\ [][NextApp]_vars

-----------------------------------------------------------------------------
(* What the claims speak of *)

IsReadyz == call.op = "readyz"

\* The GET returned a value (not None)
CacheGaveValue == Returned(call.getAns) /\ call.getAns.value # <<>>

\* The GET returned a value and the TTL read returned t with 0 < t < 300
CacheGaveFresh ==
    /\ CacheGaveValue
    /\ Returned(call.ttlAns)
    /\ 0 < call.ttlAns.value /\ call.ttlAns.value < 300

\* The sampler was invoked and returned the pair (total, inaccessible)
SamplerReturned == call.r.sample # <<>>

SampleTotal == call.r.sample[1][1]

SampleInaccessible == call.r.sample[1][2]

\* The upstream, at the time of the call, lists n > 0 boxes of which at least
\* half would not answer 200 to a probe
UpstreamHalfDown ==
    LET body == call.answer.body
        down == {i \in 1..Len(body) :
                    body[i].hasId /\ body[i].probe # [kind |-> "return", value |-> 200]}
    IN  /\ call.answer.net = "ok" /\ call.answer.status = 200
        /\ Len(body) > 0
        /\ 2 * Cardinality(down) >= Len(body)

ReadyVerdict == [status |-> "ready", message |-> "Application is ready", http |-> 200]

-----------------------------------------------------------------------------
(* C1..C7: readiness *)

C4_NeverRaises ==
    IsReadyz =>
        /\ Returned(call.r.outcome)
        /\ ~Returned(call.getAns) =>
               /\ call.r.outcome.value.status = "error"
               /\ call.r.outcome.value.message = call.getAns.msg
               /\ call.r.outcome.value.http = 503

MetRequestError ==
    \/ ~Returned(call.getAns)
    \/ CacheGaveValue /\ ~Returned(call.ttlAns)
    \/ call.r.samples = 1 /\ (call.answer.net # "ok" \/ call.answer.status # 200)

C7_StatusCodePairing ==
    (IsReadyz /\ Returned(call.r.outcome)) =>
        LET v == call.r.outcome.value
        IN  /\ v.status \in {"ready", "unavailable", "error"}
            /\ v.http \in {200, 503}
            /\ v.http = 200 <=> v.status = "ready"
            /\ v.http = 503 <=> v.status \in {"unavailable", "error"}
            /\ Returned(call.resp)
            /\ call.resp.value.code = v.http
            /\ call.resp.value.body.status = v.status

C7_Witness ==
    /\ IsReadyz /\ Returned(call.r.outcome)
    /\ call.r.outcome.value.status = "error"
    /\ call.r.outcome.value.http = 503
    /\ SamplerReturned

-----------------------------------------------------------------------------
(* C8..C10: classification and aggregation *)

IsClassified == call.op = "classify" /\ call.phase = "done"

\* C8: classification is total and exclusive: below 10 'Too cold', 10..36
\* 'Good', above 36 'Too hot'; exactly one branch of the match applies to each
\* integer and the fall-through 404 is never taken.
C8_ClassifyPartition ==
    IsClassified =>
        LET data == call.arg
        IN  /\ Returned(call.res)
            /\ call.res.value.temperature = data
            /\ data < 10 => call.res.value.status = "Too cold"
            /\ (10 <= data /\ data <= 36) => call.res.value.status = "Good"
            /\ data > 36 => call.res.value.status = "Too hot"
            /\ Cardinality({g \in {"cold", "good", "hot"} :
                               \/ g = "cold" /\ IsTooCold(data)
                               \/ g = "good" /\ IsGood(data)
                               \/ g = "hot" /\ IsTooHot(data)}) = 1

C8_Witness ==
    /\ IsClassified /\ call.arg = 37
    /\ call.res.value.status = "Too hot"

IsAveraged == call.op = "calculate_average_temperature" /\ call.phase = "done"

\* The places <<box, sensor>> of the sensors titled exactly 'Temperatur'
TemperaturPlaces(response) ==
    UNION {{<<i, j>> : j \in {k \in 1..Len(response[i].sensors) :
                                 response[i].sensors[k].title = "Temperatur"}}
              : i \in {b \in 1..Len(response) : response[b].hasSensors}}

\* The numeric literals of the model and twice their value
NumericLiterals == { <<"-", "2", ".", "5">>, <<"-", "0", ".", "5">>, <<"2", "0">>, <<"3", "0">> }

TwiceValue(v) == CASE v = <<"-", "2", ".", "5">> -> 0 - 5
                   [] v = <<"-", "0", ".", "5">> -> 0 - 1
                   [] v = <<"2", "0">> -> 40
                   [] v = <<"3", "0">> -> 60
                   [] OTHER -> 0

ValueAt(response, p) == response[p[1]].sensors[p[2]].value

AllNumeric(response) ==
    \A p \in TemperaturPlaces(response) : ValueAt(response, p) \in NumericLiterals

RECURSIVE TwiceSum(_, _)
TwiceSum(response, places) ==
    IF places = {} THEN 0
    ELSE LET p == CHOOSE q \in places : TRUE
         IN  TwiceValue(ValueAt(response, p)) + TwiceSum(response, places \ {p})

\* r is sum / count truncated toward zero, where twice == 2 * sum
IsTruncatedMean(r, twice, count) ==
    IF twice >= 0
    THEN r >= 0 /\ 2 * count * r <= twice /\ twice < 2 * count * (r + 1)
    ELSE r <= 0 /\ 2 * count * (r - 1) < twice /\ twice <= 2 * count * r

\* C9 as stated: for every response with at least one sensor titled
\* 'Temperatur' the function returns the truncated mean of those sensors.
C9_Original ==
    (IsAveraged /\ TemperaturPlaces(call.arg) # {}) =>
        /\ Returned(call.res)
        /\ IsTruncatedMean(call.res.value,
                           TwiceSum(call.arg, TemperaturPlaces(call.arg)),
                           Cardinality(TemperaturPlaces(call.arg)))

\* C9 amended: for every response with at least one sensor titled 'Temperatur'
\* in which every such sensor has a numeric value, the function returns the sum
\* of those values divided by their count, truncated toward zero; sensors with
\* another title do not change the result.
C9_TruncatedMean ==
    (IsAveraged /\ TemperaturPlaces(call.arg) # {} /\ AllNumeric(call.arg)) =>
        /\ Returned(call.res)
        /\ IsTruncatedMean(call.res.value,
                           TwiceSum(call.arg, TemperaturPlaces(call.arg)),
                           Cardinality(TemperaturPlaces(call.arg)))

C9_Witness ==
    /\ IsAveraged
    /\ call.arg = << [hasSensors |-> TRUE,
                      sensors |-> << [title |-> "Temperatur", value |-> <<"-", "2", ".", "5">>] >>],
                     [hasSensors |-> TRUE,
                      sensors |-> << [title |-> "temperature", value |-> <<"2", "2", ".", "5">>] >>] >>
    /\ call.res = [kind |-> "return", value |-> 0 - 2]

\* C10: the function raises HTTPException 404 'No temperature data found'
\* exactly when the response holds no sensor titled 'Temperatur' (the empty
\* list and boxes without sensors included), and then neither returns a value
\* nor divides by zero.
C10_NoDataFound ==
    IsAveraged =>
        (call.res = [kind |-> "raise", type |-> "HTTPException", code |-> 404,
                     msg |-> "No temperature data found"])
            <=> (TemperaturPlaces(call.arg) = {})

C10_Witness ==
    /\ IsAveraged
    /\ call.arg = << [hasSensors |-> FALSE, sensors |-> <<>>] >>
    /\ call.res.kind = "raise" /\ call.res.code = 404

-----------------------------------------------------------------------------
(* C11..C13: the read path *)

IsTemperature == call.op = "temperature"

\* The integers the cache can hold, as the bytes Redis returns for them
IntBytes(n) == Str(n)

\* The GET returned the bytes of the integer n
CacheGaveInt(n) == Returned(call.getAns) /\ call.getAns.value = <<IntBytes(n)>>

\* The band of the classification scheme that holds n
Band(n) == IF n < 10 THEN "Too cold" ELSE IF n <= 36 THEN "Good" ELSE "Too hot"

\* C11: whenever the cache read returns a value v, get_temperature returns
\* {temperature: v, status: classify(v)} after exactly one cache read, with no
\* upstream fetch, no aggregation and no cache write: the entry and its
\* remaining TTL are as they were before the call.
C11_CacheHit ==
    \A n \in TempRange :
        (IsTemperature /\ CacheGaveInt(n)) =>
            /\ call.r.outcome = [kind |-> "return",
                                 value |-> [temperature |-> n, status |-> Band(n)]]
            /\ call.r.gets = 1
            /\ call.r.fetches = 0
            /\ call.r.aggregations = 0
            /\ call.r.write = <<>>
            /\ cache = call.before

C11_Witness ==
    /\ IsTemperature /\ CacheGaveInt(0 - 2)
    /\ call.before = <<[val |-> <<"-", "2">>, ttl |-> 115]>>
    /\ call.answer.net = "ok" /\ call.answer.status = 200
    /\ cache = call.before
    /\ call.r.outcome.value = [temperature |-> 0 - 2, status |-> "Too cold"]

\* The GET returned None
CacheGaveNothing == call.getAns = [kind |-> "return", value |-> <<>>]

\* The upstream answered 200 with a list whose sensors titled 'Temperatur' are
\* at least one and all numeric: the fetch and the aggregation both succeed
FetchAndAggregateSucceed ==
    /\ call.answer.net = "ok" /\ call.answer.status = 200
    /\ TemperaturPlaces(call.answer.body) # {}
    /\ AllNumeric(call.answer.body)

\* v is the truncated mean of the upstream's answer
IsAggregateOfAnswer(v) ==
    IsTruncatedMean(v, TwiceSum(call.answer.body, TemperaturPlaces(call.answer.body)),
                    Cardinality(TemperaturPlaces(call.answer.body)))

\* What C12 promises of a miss whose aggregate is v
MissStoresAndReturns(v) ==
    /\ call.r.fetches = 1
    /\ call.r.aggregations = 1
    /\ call.r.write = <<v>>
    /\ cache = <<[val |-> IntBytes(v), ttl |-> 300]>>
    /\ call.r.outcome = [kind |-> "return",
                         value |-> [temperature |-> v, status |-> Band(v)]]

\* C12 as stated: when the cache read returns no value and the upstream fetch
\* and the aggregation succeed with value v, get_temperature fetches and
\* aggregates once each, stores v with expiration 300 and returns
\* {temperature: v, status: classify(v)}; right after the call the cache holds v.
C12_Original ==
    \A v \in TempRange :
        (IsTemperature /\ CacheGaveNothing /\ FetchAndAggregateSucceed
            /\ IsAggregateOfAnswer(v)) => MissStoresAndReturns(v)

\* C12 amended: the same, provided the cache write itself succeeds; when Redis
\* refuses the SET, get_temperature raises the RedisError, returns nothing and
\* the cache stays empty.
C12_CacheMiss ==
    \A v \in TempRange :
        (IsTemperature /\ CacheGaveNothing /\ FetchAndAggregateSucceed
            /\ IsAggregateOfAnswer(v))
        => IF Returned(call.setAns) THEN MissStoresAndReturns(v)
           ELSE /\ call.r.outcome = call.setAns
                /\ call.r.fetches = 1 /\ call.r.aggregations = 1
                /\ call.r.write = <<>>
                /\ cache = call.before

C12_Witness ==
    /\ IsTemperature /\ CacheGaveNothing /\ FetchAndAggregateSucceed
    /\ IsAggregateOfAnswer(0 - 2)
    /\ Returned(call.setAns)
    /\ call.before = <<>>
    /\ cache = <<[val |-> <<"-", "2">>, ttl |-> 300]>>
    /\ call.r.outcome.value = [temperature |-> 0 - 2, status |-> "Too cold"]

\* The status of the HTTP response: 200 for a returned body, the status_code of
\* an HTTPException, 0 for an exception the endpoint lets through
HttpStatus(resp) == IF Returned(resp) THEN 200
                    ELSE IF resp.type = "HTTPException" THEN resp.code
                    ELSE 0

\* The upstream fetch fails: no connection, or an error status
FetchFails == call.answer.net # "ok" \/ call.answer.status >= 400

\* The fetch succeeds and the list holds no sensor titled 'Temperatur'
NoDataInAnswer ==
    /\ call.answer.net = "ok" /\ call.answer.status = 200
    /\ TemperaturPlaces(call.answer.body) = {}

\* C13: on a cache miss, a NoDataFound failure of the aggregation yields HTTP
\* 404 and a failure of the upstream fetch yields HTTP 500 with the exception's
\* message as detail; the two are never mapped to the same status, and GET
\* /temperature produces no other status than 200, 404 or 500.
C13_ErrorMapping ==
    IsTemperature =>
        /\ HttpStatus(call.resp) \in {200, 404, 500}
        /\ (CacheGaveNothing /\ NoDataInAnswer) =>
               call.resp = [kind |-> "raise", type |-> "HTTPException", code |-> 404,
                            msg |-> "No temperature data found"]
        /\ (CacheGaveNothing /\ FetchFails) =>
               call.resp = [kind |-> "raise", type |-> "HTTPException", code |-> 500,
                            msg |-> fetch_temperature_from_api(call.answer).msg]

C13_Witness ==
    /\ IsTemperature /\ CacheGaveNothing
    /\ call.answer.net = "error"
    /\ call.r.outcome.type = "RequestException"
    /\ call.resp = [kind |-> "raise", type |-> "HTTPException", code |-> 500,
                    msg |-> "Connection error"]

-----------------------------------------------------------------------------
(* C14..C18: the snapshot loop *)

\* The state right after an iteration of the snapshot loop
IsSnapshot == call.op = "snapshot"

\* The iteration met a failure: an exception was raised in it, or MinIO
\* refused the object
IterationFailed ==
    \/ call.r.escaped # <<>>
    \/ call.r.logged # <<>>
    \/ call.r.store.stamped = 1 /\ minio.puts = call.stored.puts

\* C14: no failure of any kind inside an iteration of
\* store_temperature_periodically (cache error, upstream fetch error,
\* aggregation error, durable-store error including a failed bucket-existence
\* check or bucket creation, on the cache-hit branch as well as on the
\* cache-miss branch) escapes the loop; after a failed iteration the task is
\* asleep, from where the next iteration runs.
C14_LoopSurvives ==
    (IsSnapshot /\ IterationFailed) =>
        /\ call.r.escaped = <<>>
        /\ task.pc = "sleeping"

\* C15: every iteration of store_temperature_periodically, successful or
\* failed, is followed by one sleep of the fixed 300-second interval before
\* the next iteration begins: an iteration starts only in a task that was just
\* created or has slept its whole interval, and ends in a task asleep for 300
\* seconds, never more.
C15_Pacing ==
    IsSnapshot =>
        /\ \/ call.was.pc = "created"
           \/ call.was.pc = "sleeping" /\ call.was.sleep = 0
        /\ task.pc = "sleeping"
        /\ task.sleep = 300

\* C16: the snapshot loop is read-only with respect to the cache: no iteration
\* of store_temperature_periodically, on hit, miss or failure, writes or
\* deletes the 'temperature' entry or changes its TTL; a value computed from
\* the upstream on a miss is persisted but not cached.
C16_LoopReadOnly ==
    IsSnapshot =>
        /\ call.r.sets = 0
        /\ cache = call.before

\* The value the iteration handed to store_temperature_in_minio: <<>> when the
\* function was not called
Handed == call.r.store.handed

\* C17: in each loop iteration, if the cache read returns a value v, the value
\* handed to the durable store is v and the upstream is not fetched; if the
\* cache read returns nothing, the value handed to the durable store is the
\* aggregate of the readings fetched in that iteration.
C17_ValueSource ==
    IsSnapshot =>
        /\ \A n \in TempRange :
               CacheGaveInt(n) => /\ Handed = <<n>>
                                  /\ call.r.fetches = 0
                                  /\ call.r.aggregations = 0
        /\ \A v \in TempRange :
               (CacheGaveNothing /\ FetchAndAggregateSucceed /\ IsAggregateOfAnswer(v))
                   => /\ Handed = <<v>>
                      /\ call.r.fetches = 1
                      /\ call.r.aggregations = 1

C17_Witness ==
    /\ IsSnapshot /\ CacheGaveNothing /\ FetchAndAggregateSucceed
    /\ IsAggregateOfAnswer(0 - 2)
    /\ Handed = <<0 - 2>>
    /\ call.r.fetches = 1
    /\ minio.puts = call.stored.puts + 1

\* The task has ended: cancelled, or ended by an exception
Finished == task.pc \in {"cancelled", "failed"}

IsShutdown == call.op = "shutdown"

\* C18: the loop task is created exactly once, at application startup; at
\* shutdown it is cancelled and awaited, so that once the lifespan exit
\* completes the task is finished; a cancellation delivered while the loop is
\* sleeping ends it, and a cancelled task starts no other iteration and writes
\* no other snapshot.
C18_Lifecycle ==
    /\ [](/\ task.created = IF task.app = "down" THEN 0 ELSE 1
          /\ task.app = "stopped" => Finished
          /\ (IsShutdown /\ call.before.pc = "sleeping") =>
                 /\ task.pc = "cancelled"
                 /\ minio = call.stored)
    /\ [][task.pc = "cancelled" =>
              /\ task'.pc = "cancelled"
              /\ call'.op # "snapshot"
              /\ minio' = minio]_vars

C18_Witness ==
    /\ IsShutdown
    /\ call.before.pc = "sleeping" /\ call.before.sleep = 185
    /\ task.app = "stopped" /\ task.pc = "cancelled"
    /\ minio.puts = 1

-----------------------------------------------------------------------------
(* C19, C20: the objects of the durable store *)

\* The state right after a call that may have written a snapshot
IsStoreCall == call.op \in {"snapshot", "store"}

\* The objects the last call added
NewObjects == minio.objects \ call.stored.objects

StampOf(name) == SubSeq(name, 2, Len(name) - 1)

IsSnapshotName(name) ==
    /\ Len(name) > 2
    /\ name[1] = "temperature_"
    /\ name[Len(name)] = ".json"

\* The document {"timestamp": ts, "temperature": temp}
Document(ts, temp) ==
    <<"{\"timestamp\": \"">> \o ts \o <<"\", \"temperature\": ">> \o IntBytes(temp) \o <<"}">>

\* C20: each object written by store_temperature_in_minio(temp) is named
\* temperature_<ts>.json and its body is {timestamp: ts, temperature: temp}
\* with the same ts as in the name and temp equal to the argument; every object
\* in the durable store satisfies this agreement of name and body.
C20_NameBodyAgree ==
    /\ \A o \in minio.objects :
           /\ IsSnapshotName(o.name)
           /\ \E temp \in TempRange : o.data = Document(StampOf(o.name), temp)
    /\ IsStoreCall =>
           \A o \in NewObjects : o.data = Document(StampOf(o.name), call.r.store.handed[1])

C20_Witness ==
    /\ call.op = "store"
    /\ call.r.store.handed = <<0 - 2>>
    /\ NewObjects = {[name |-> <<"temperature_", "2", ".json">>,
                      data |-> <<"{\"timestamp\": \"", "2", "\", \"temperature\": ",
                                 "-", "2", "}">>]}
    /\ Cardinality(minio.objects) = 2

-----------------------------------------------------------------------------
(* C21, C22: the bucket and the failures of the durable store *)

\* The last call reached store_temperature_in_minio
StoreWasCalled == IsStoreCall /\ call.r.store.checks = 1

\* What the existence check reported: it failed, or it told whether the bucket
\* was there
CheckReportedMissing == ~call.errs.exists /\ ~call.stored.bucket

\* C21: store_temperature_in_minio creates the bucket if and only if the
\* existence check reports it missing (never when it exists, at most once per
\* call); if the creation fails the call raises HTTP 500 'Failed to create
\* MinIO bucket' and no object is written in that call.
C21_BucketHandling ==
    StoreWasCalled =>
        /\ call.r.store.makes = IF CheckReportedMissing THEN 1 ELSE 0
        /\ (CheckReportedMissing /\ call.errs.make) =>
               /\ call.r.store.outcome = [kind |-> "raise", type |-> "HTTPException",
                                          code |-> 500,
                                          msg |-> "Failed to create MinIO bucket"]
               /\ minio = call.stored
        /\ (CheckReportedMissing /\ ~call.errs.make) => minio.bucket
        /\ ~CheckReportedMissing => minio.bucket = call.stored.bucket

C21_Witness ==
    /\ StoreWasCalled /\ call.op = "store"
    /\ CheckReportedMissing /\ call.errs.make
    /\ call.r.store.makes = 1
    /\ call.r.store.outcome.code = 500
    /\ minio.objects = {}

\* MinIO failed during the last call: at the existence check, at the creation
\* of the bucket or at the upload
DurableStoreFailed ==
    \/ call.errs.exists
    \/ call.errs.make
    \/ call.errs.put

\* C22: durable-store errors are never fatal to GET /store: any failure of the
\* durable store (object upload, bucket-existence check or bucket creation) is
\* logged and swallowed, so the request still completes without an error
\* response.
C22_StoreNeverFatal ==
    (call.op = "store" /\ StoreWasCalled /\ DurableStoreFailed) =>
        Returned(call.r.outcome)

-----------------------------------------------------------------------------
(* C23..C26: the availability sampler and the fall-back of readiness *)

\* C23: every pair (total, inaccessible) returned by count_available_senseboxes
\* satisfies 0 <= inaccessible <= total, with total equal to the number of
\* endpoints in the fetched list.
C23_SampleBounds ==
    (IsReadyz /\ SamplerReturned) =>
        /\ 0 <= SampleInaccessible
        /\ SampleInaccessible <= SampleTotal
        /\ SampleTotal = Len(call.answer.body)

C23_Witness ==
    /\ IsReadyz /\ SamplerReturned
    /\ Len(call.answer.body) = 2
    /\ SampleTotal = 2 /\ SampleInaccessible = 1

\* The sampler was invoked and its fetch of the endpoint list succeeded
SamplerFetchedList ==
    /\ IsReadyz /\ call.r.samples = 1
    /\ call.answer.net = "ok" /\ call.answer.status = 200

\* The endpoints of the fetched list whose probe raised a network error or
\* answered with a status outside 200..299
Non2xxEndpoints ==
    {i \in 1..Len(call.answer.body) :
        \/ call.answer.body[i].probe.kind = "raise"
        \/ call.answer.body[i].probe.value < 200
        \/ call.answer.body[i].probe.value > 299}

\* C24: count_available_senseboxes probes every endpoint of the fetched list
\* exactly once, continuing after any failed probe, and returns inaccessible
\* equal to the number of endpoints whose probe returned a non-2xx status or
\* raised a network error (any 2xx status counts as accessible).
C24_CountDefinition ==
    SamplerFetchedList =>
        /\ call.r.probes = Len(call.answer.body)
        /\ SamplerReturned
        /\ SampleInaccessible = Cardinality(Non2xxEndpoints)

\* C25: count_available_senseboxes raises only when the initial endpoint-list
\* fetch fails: once the list is fetched, no fault met while handling an
\* individual endpoint (probe error, bad status, malformed endpoint record)
\* is raised; a pair is returned.
C25_RaisesOnlyOnFetch ==
    SamplerFetchedList => SamplerReturned

\* The cache cannot vouch: the GET returned no value, or the TTL read returned
\* a TTL that is <= 0 (the entry was gone by then) or >= 300 (just set)
CacheCannotVouch ==
    /\ Returned(call.getAns)
    /\ \/ call.getAns.value = <<>>
       \/ /\ Returned(call.ttlAns)
          /\ call.ttlAns.value <= 0 \/ call.ttlAns.value >= 300

\* The verdict that follows from a sample alone
IsVerdictOfSample(v, total, inaccessible) ==
    IF total = 0 THEN v.status = "error" /\ v.http = 503
    ELSE IF 2 * inaccessible >= total THEN v.status = "unavailable" /\ v.http = 503
    ELSE v.status = "ready" /\ v.http = 200

\* C26: if the cache value is absent, or its TTL is <= 0 (the negative
\* sentinel of an entry that expired between the value read and the TTL read
\* included) or >= 300, readiness_check invokes the sampler exactly once and
\* derives its verdict only from the sample; it never returns Ready through
\* the short-circuit.
C26_FallBackToSampling ==
    (IsReadyz /\ CacheCannotVouch) =>
        /\ call.r.samples = 1
        /\ call.r.fetches = 1
        /\ IF SamplerReturned
           THEN /\ Returned(call.r.outcome)
                /\ IsVerdictOfSample(call.r.outcome.value, SampleTotal, SampleInaccessible)
           ELSE ~(Returned(call.r.outcome) /\ call.r.outcome.value.status = "ready")

\* An entry just set (TTL 300) with every endpoint down: not ready
C26_Witness ==
    /\ IsReadyz /\ CacheCannotVouch
    /\ call.getAns.value # <<>>
    /\ call.ttlAns = [kind |-> "return", value |-> 300]
    /\ SamplerReturned /\ SampleTotal = 2 /\ SampleInaccessible = 2
    /\ call.r.outcome.value.http = 503

-----------------------------------------------------------------------------
(* C27: a cache failure on the read path *)

\* C27: if the cache read of get_temperature fails (the cache store is
\* unreachable), the request is handled as a cache miss: the upstream is
\* fetched and the aggregate is returned, instead of the request failing.
C27_ReadFailsOpen ==
    \A v \in TempRange :
        (IsTemperature /\ ~Returned(call.getAns) /\ FetchAndAggregateSucceed
            /\ IsAggregateOfAnswer(v))
        => /\ call.r.fetches = 1
           /\ Returned(call.resp)
           /\ call.resp.value.temperature = v

-----------------------------------------------------------------------------
(* C28, C29: single calls *)

\* The upstream answered 200 with a list in which some sensor titled
\* 'Temperatur' has a value that is no number
SomeValueNotNumeric ==
    /\ call.answer.net = "ok" /\ call.answer.status = 200
    /\ ~AllNumeric(call.answer.body)

\* C28: if any sensor titled 'Temperatur' has a non-numeric value,
\* calculate_average_temperature fails as a whole (the bad value is not
\* skipped and no partial mean is returned, even when other 'Temperatur'
\* sensors are valid); on the read path the failure propagates out of
\* get_temperature and the cache is not written.
C28_StrictParsing ==
    (IsTemperature /\ CacheGaveNothing /\ SomeValueNotNumeric) =>
        /\ call.r.aggregations = 1
        /\ call.r.outcome.kind = "raise"
        /\ call.r.outcome.type = "ValueError"
        /\ call.r.write = <<>>
        /\ cache = call.before

\* A valid sensor (20) in the first box, a bad one in the second
C28_Witness ==
    /\ IsTemperature /\ CacheGaveNothing /\ SomeValueNotNumeric
    /\ Len(call.answer.body) = 2
    /\ call.answer.body[1].sensors
           = << [title |-> "Temperatur", value |-> <<"2", "0">>] >>
    /\ call.answer.body[2].sensors
           = << [title |-> "Temperatur", value |-> <<"a", "b", "c">>] >>
    /\ call.r.outcome.type = "ValueError"
    /\ cache = <<>>

\* C29: within one read-path call, one readiness evaluation or one
\* snapshot-loop iteration, the upstream endpoint-list fetch is invoked at
\* most once and each endpoint is probed at most once, whether the call
\* succeeds or fails: a failed fetch or probe is not attempted again.
C29_NoRetries ==
    /\ IsTemperature => /\ call.r.fetches <= 1
                        /\ call.r.aggregations <= call.r.fetches
    /\ IsReadyz => /\ call.r.samples <= 1
                   /\ call.r.fetches <= 1
                   /\ call.r.probes <= Len(call.answer.body)
    /\ IsSnapshot => /\ call.r.fetches <= 1
                     /\ call.r.aggregations <= call.r.fetches

\* A readiness evaluation whose list fetch failed: one fetch, no probe
C29_Witness ==
    /\ IsReadyz /\ call.answer.net = "error"
    /\ call.r.samples = 1 /\ call.r.fetches = 1 /\ call.r.probes = 0
    /\ call.r.outcome.value.http = 503

-----------------------------------------------------------------------------
(* C30: the snapshot worker *)

\* The task the last iteration started from had no iteration under way:
\* it had not run yet, or the sleep of its previous iteration was over
PreviousIterationOver ==
    \/ call.was.pc = "created"
    \/ call.was.pc = "sleeping" /\ call.was.sleep = 0

\* The iteration left the task asleep for the whole interval, or ended it
IterationClosed ==
    \/ task.pc = "sleeping" /\ task.sleep = SNAPSHOT_INTERVAL
    \/ task.pc = "failed"

\* C30: at most one iteration of the snapshot loop is in progress at any
\* time: the application creates one task, an iteration (cache read,
\* optional fetch, store write and its sleep) is over before the next one
\* begins, and an iteration writes one object at most, so no two iterations
\* write to the durable store at the same time.
C30_SingleWorker ==
    /\ task.created <= 1
    /\ IsSnapshot => /\ PreviousIterationOver
                     /\ IterationClosed
                     /\ call.r.store.stamped <= 1
                     /\ minio.puts <= call.stored.puts + 1

\* The second iteration, begun after the first one's sleep, wrote its object
C30_Witness ==
    /\ IsSnapshot
    /\ call.was.pc = "sleeping" /\ call.was.sleep = 0
    /\ call.stored.puts = 1 /\ minio.puts = 2
    /\ task.pc = "sleeping" /\ task.sleep = SNAPSHOT_INTERVAL

-----------------------------------------------------------------------------
(* C31: snapshots whatever the cache holds *)

\* In the last iteration no call to Redis, to the upstream or to MinIO failed
NoCollaboratorFailed ==
    /\ Returned(call.getAns)
    /\ ~call.errs.exists /\ ~call.errs.make /\ ~call.errs.put
    /\ call.r.fetches = 1 => call.answer.net = "ok" /\ call.answer.status = 200

\* The last call put exactly one new object
WroteOne ==
    /\ Cardinality(NewObjects) = 1
    /\ minio.puts = call.stored.puts + 1

\* The list fetched after a miss holds nothing to aggregate, or a value that
\* is no number
MissWithoutData == IsSnapshot /\ CacheGaveNothing /\ ~FetchAndAggregateSucceed

\* The task has not ended
Alive == task.app = "up" /\ task.pc \in {"created", "sleeping"}

-----------------------------------------------------------------------------
(* C32: GET /store *)

IsStoreRequest == call.op = "store"

\* What the read path of the request returned
ReadSucceeded == Returned(call.r.read.outcome)

ReadValue == call.r.read.outcome.value.temperature

\* C32: GET /store performs the read path exactly once and then, only if the
\* read path succeeded, exactly one durable-store write whose temperature is
\* the value the read path returned (one call; the object it puts, exactly one
\* unless the durable store fails, carries that value); if the read path
\* fails, the store is not called and no snapshot is written.
C32_ReadThenWrite ==
    IsStoreRequest =>
        /\ call.r.read.gets = 1
        /\ call.r.read.fetches <= 1
        /\ ReadSucceeded =>
               /\ call.r.store.checks = 1
               /\ call.r.store.handed = <<ReadValue>>
               /\ Cardinality(NewObjects) = IF DurableStoreFailed THEN 0 ELSE 1
               /\ \A o \in NewObjects : o.data = Document(StampOf(o.name), ReadValue)
        /\ ~ReadSucceeded =>
               /\ call.r.store.checks = 0
               /\ call.r.store.handed = <<>>
               /\ minio = call.stored

\* A miss aggregated -2 (from -2.5) and the request stored one object of -2
C32_Witness ==
    /\ IsStoreRequest /\ ReadSucceeded
    /\ call.r.read.miss = 1 /\ ReadValue = 0 - 2
    /\ call.r.store.handed = <<0 - 2>>
    /\ Cardinality(NewObjects) = 1
    /\ \A o \in NewObjects : o.data = Document(StampOf(o.name), 0 - 2)

-----------------------------------------------------------------------------
(* C33: the status depends on the value alone *)

\* The last call was a read that returned a body
ReadReturned == IsTemperature /\ Returned(call.r.outcome)

\* What the read path returns when the cache hands it the value v
ServedFromCache(v) ==
    get_temperature(Return(<<IntBytes(v)>>), call.answer, call.setAns).outcome

\* C33: for the same temperature value get_temperature returns the same
\* status whether the value came from the cache or from a fresh aggregation,
\* and on every call, whatever the TTL and the earlier requests were: the
\* status of every returned body is the band of its value, and it is the
\* body a cache hit on that value returns.
C33_Pure ==
    ReadReturned =>
        /\ call.r.outcome.value.status = Band(call.r.outcome.value.temperature)
        /\ call.r.outcome = ServedFromCache(call.r.outcome.value.temperature)

\* A miss aggregated -2, which a hit would also call too cold
C33_Witness ==
    /\ ReadReturned
    /\ call.r.miss = 1
    /\ call.r.outcome.value = [temperature |-> 0 - 2, status |-> "Too cold"]
    /\ ServedFromCache(0 - 2).value.status = "Too cold"

-----------------------------------------------------------------------------
(* C34: how old a cached value can be *)

\* The read path inside the call c: of GET /temperature or of GET /store
IsReadPath(c) == c.op \in {"temperature", "store"}

ReadOf(c) == IF c.op = "store" THEN c.r.read ELSE c.r

\* The seconds since the entry was set, for an entry set with CACHE_EXPIRATION
\* whose time to live only ever ran down
AgeOf(entry) == CACHE_EXPIRATION - entry.ttl

\* The step set the entry: there is one where there was none, or it has
\* another value or more time to live than before
EntryWritten ==
    /\ cache' # <<>>
    /\ \/ cache = <<>>
       \/ cache'[1].val # cache[1].val
       \/ cache'[1].ttl > cache[1].ttl

\* The step is a read-path miss that aggregated a value and set it with the
\* expiration of 300 seconds
WrittenByMiss ==
    /\ IsReadPath(call')
    /\ ReadOf(call').miss = 1
    /\ ReadOf(call').aggregations = 1
    /\ ReadOf(call').write # <<>>
    /\ ReadOf(call').outcome.value.temperature = ReadOf(call').write[1]
    /\ cache' = <<[val |-> IntBytes(ReadOf(call').write[1]), ttl |-> 300]>>

\* While d seconds pass the time to live of an entry runs down by d, and the
\* entry is gone once it reaches 0
RunsDown ==
    (call'.op = "tick" /\ cache # <<>>) =>
        IF cache[1].ttl > call'.d
        THEN cache' = <<[val |-> cache[1].val, ttl |-> cache[1].ttl - call'.d]>>
        ELSE cache' = <<>>

\* The last call served its value from the cache
ServedHit == IsReadPath(call) /\ ReadOf(call).hit = 1 /\ Returned(ReadOf(call).outcome)

\* C34: the 'temperature' entry is written only by a read-path miss, always
\* with expiration 300 s, and only when there is no entry (it is never
\* refreshed or extended while present); its time to live runs down with the
\* clock; hence after any sequence of reads, readiness checks, GET /store
\* requests and loop iterations a value served from the cache is the one
\* aggregated at most 300 seconds earlier.
C34_BoundedStaleness ==
    /\ [][EntryWritten => (cache = <<>> /\ WrittenByMiss)]_vars
    /\ [][RunsDown]_vars
    /\ [](cache # <<>> => cache[1].ttl \in 1..CACHE_EXPIRATION)
    /\ [](ServedHit => /\ call.before # <<>>
                       /\ AgeOf(call.before[1]) \in 0..(CACHE_EXPIRATION - 1)
                       /\ IntBytes(ReadOf(call).outcome.value.temperature)
                              = call.before[1].val
                       /\ cache = call.before)

\* A value 230 seconds old is served, after the loop has stored a snapshot
C34_Witness ==
    /\ IsTemperature /\ ServedHit
    /\ AgeOf(call.before[1]) = 230
    /\ minio.puts > 0
    /\ task.pc = "sleeping"

-----------------------------------------------------------------------------
(* C35: what a short-circuit verdict vouches for *)

\* readiness_check returned Ready and the sampler was not invoked
ReadyWithoutSampling ==
    /\ IsReadyz /\ Returned(call.r.outcome)
    /\ call.r.outcome.value.status = "ready"
    /\ call.r.samples = 0

\* The step is a read-path call that fetched the upstream's list, aggregated
\* it and returned, and the entry it left holds that aggregate, set just now
FetchedAndAggregated ==
    /\ IsReadPath(call')
    /\ ReadOf(call').fetches = 1 /\ ReadOf(call').aggregations = 1
    /\ Returned(ReadOf(call').outcome)
    /\ call'.answer.net = "ok" /\ call'.answer.status = 200
    /\ calculate_average_temperature(call'.answer.body)
           = Return(ReadOf(call').outcome.value.temperature)
    /\ cache'[1].val = IntBytes(ReadOf(call').outcome.value.temperature)
    /\ AgeOf(cache'[1]) = 0

\* The entry is the one that was there, no younger than before
SameEntryOlder ==
    /\ cache # <<>>
    /\ cache'[1].val = cache[1].val
    /\ AgeOf(cache'[1]) >= AgeOf(cache[1])

\* C35: whenever readiness_check returns Ready without sampling, some
\* read-path call successfully fetched and aggregated upstream data within
\* the preceding 300 seconds: the verdict rests on an entry that is there,
\* less than 300 s old, and every entry was set by such a call and has only
\* aged since.
C35_RecentSuccess ==
    /\ [](ReadyWithoutSampling =>
              /\ cache # <<>>
              /\ call.getAns = Return(<<cache[1].val>>)
              /\ call.ttlAns = Return(cache[1].ttl)
              /\ AgeOf(cache[1]) \in 1..(CACHE_EXPIRATION - 1))
    /\ [][cache' # <<>> => (SameEntryOlder \/ (cache = <<>> /\ FetchedAndAggregated))]_vars

\* Ready without sampling on an entry set 115 seconds ago
C35_Witness ==
    /\ ReadyWithoutSampling
    /\ cache # <<>> /\ AgeOf(cache[1]) = 115
    /\ call.r.fetches = 0

-----------------------------------------------------------------------------
(* C36: a miss that fails *)

\* A read met no entry and then the fetch failed or the aggregation did
FailedMiss == IsTemperature /\ CacheGaveNothing /\ ~FetchAndAggregateSucceed

\* C36: if the upstream fetch or the aggregation fails during
\* get_temperature, no cache write happens in that call, so no error marker
\* or partial value is cached: the entry stays absent while time passes, and
\* the next read that reaches the cache misses again and fetches again.
C36_FailedMissNoWrite ==
    /\ [](FailedMiss => /\ ~Returned(call.r.outcome)
                        /\ call.r.fetches = 1
                        /\ call.r.write = <<>>
                        /\ call.before = <<>>
                        /\ cache = <<>>)
    /\ [][(cache = <<>> /\ call'.op = "tick") => cache' = <<>>]_vars
    /\ [][(cache = <<>> /\ call'.op = "temperature" /\ Returned(call'.getAns))
              => (call'.r.miss = 1 /\ call'.r.fetches = 1)]_vars

\* The aggregation failed on a value that is no number, and nothing was cached
C36_Witness ==
    /\ FailedMiss
    /\ call.answer.status = 200 /\ ~AllNumeric(call.answer.body)
    /\ call.r.outcome.type = "ValueError"
    /\ cache = <<>>

-----------------------------------------------------------------------------
(* C37: main.py against the package *)

AnsweredByBoth == call.op = "both"

\* C37: for every integer temperature value the /temperature handler of
\* src/main.py returns the same status as app.services.get_temperature: Too
\* cold below 10, Good for 10..36, Too hot above 36.
C37_LegacyAgrees ==
    AnsweredByBoth =>
        /\ Returned(call.legacy) /\ Returned(call.packaged)
        /\ call.legacy.value.temperature = call.arg
        /\ call.legacy.value.status = call.packaged.value.status
        /\ call.legacy.value.status = Band(call.arg)

=============================================================================
